---- MODULE Spec2Model ----
(***************************************************************************)
(* Model of the R2 storage adapter (src/src/r2.rs): the six operations of  *)
(* `impl R2` over a bucket, the bucket being the key -> object store the   *)
(* adapter calls.  Every `.await` on a bucket call is one atomic step of   *)
(* the store; patch_metadata has two of them (get, then put) and so two    *)
(* actions, with other callers' operations free to run in between.         *)
(***************************************************************************)
EXTENDS Integers, Sequences, FiniteSets, TLC

VARIABLES
    store,          \* the bucket: key -> None or Some(object)
    inflight,       \* caller -> None or Some(locals of a patch_metadata between its get and its put)
    last,           \* what the last finished get/put/delete/patch_metadata call returned
    deleted,        \* history: key -> "no" | "yes" (delete succeeded, nothing written since) | "patched"
    dl,             \* what the last download call did and returned
    ls,             \* what the last list call returned
    overflowChecks  \* build profile: TRUE when integer overflow panics (debug), FALSE when it wraps (release)

vars == <<store, inflight, last, deleted, dl, ls, overflowChecks>>

(***************************************************************************)
(* Bounds of the model.                                                    *)
(***************************************************************************)
\* longest object content, in bytes
MaxLen == 2
\* width in bits of the unsigned integers of Range / R2Range, scaled down
Width == 2

Modulus == 2 ^ Width
UInts == 0 .. (Modulus - 1)

\* the key the single-key operations are exercised on
Keys == {<<"a">>}
\* the keys of the bucket that list is exercised on, in the bucket's listing
\* order (lexicographic), and the prefixes asked for
KeyOrder == <<(<<"a">>), (<<"a", "b">>), (<<"b">>)>>
ListKeys == {KeyOrder[i] : i \in 1 .. Len(KeyOrder)}
Prefixes == {<<>>, <<"a">>, <<"a", "b">>, <<"b">>, <<"c">>}
\* most objects one list call of the bucket returns (1000 in R2, scaled down)
ListLimit == 2
Callers == {"c1", "c2"}

(***************************************************************************)
(* Option<T> as a set with at most one element.                            *)
(***************************************************************************)
None == {}
Some(x) == {x}
Unwrap(o) == CHOOSE x \in o : TRUE

(***************************************************************************)
(* Objects of the bucket.                                                  *)
(***************************************************************************)
Bodies == {[i \in 1 .. n |-> i] : n \in 0 .. MaxLen}
EmptyMeta == <<>>
Metas == {EmptyMeta, "owner" :> "x"}
NoHttp == [content_type |-> None]
Https == {NoHttp, [content_type |-> Some("text/plain")]}
Objects == {o \in [body : Bodies, size : 0 .. MaxLen, custom : Metas, http : Https] :
                o.size = Len(o.body)}
StoresOver(keys) == [keys -> {None} \cup {Some(o) : o \in Objects}]

(***************************************************************************)
(* Properties extractor: the views of one object handed back to the caller. *)
(***************************************************************************)
DavPropertiesFrom(file) ==
    [size |-> file.size, content_type |-> file.http.content_type]

HttpResponseHeadersFrom(http) == [content_type |-> http.content_type]

(***************************************************************************)
(* The bucket's primitives, as the adapter calls them.                     *)
(***************************************************************************)
\* bucket.get(path): the object at the key, if any
BucketGet(s, key) == s[key]

\* FixedLengthStream::wrap(stream, length): the upload goes through only
\* when the stream yields exactly the declared number of bytes
\* (variant: a wrap that lets any stream through under the declared length)
FixedLengthOkUnchecked(stream, length) == TRUE
FixedLengthOk(stream, length) == Len(stream) = length

\* bucket.put(path, fixed-length stream)[.custom_metadata(m)]: the object
\* written; a put carries no HTTP metadata, so the new object has none
WrittenObject(stream, length, custom) ==
    [body |-> stream, size |-> length, custom |-> custom, http |-> NoHttp]

\* (variant: a put that writes only over an object that is still there)
BucketPutIfExists(s, key, obj) == IF s[key] = None THEN s ELSE [s EXCEPT ![key] = Some(obj)]
BucketPut(s, key, obj) == [s EXCEPT ![key] = Some(obj)]

\* bucket.delete(path): removes the object; an absent key is no error
\* (variant: a delete that reports success and removes nothing)
BucketDeleteKeep(s, key) == s
BucketDelete(s, key) == [s EXCEPT ![key] = None]

(***************************************************************************)
(* Results of the calls of get / put / delete / patch_metadata.            *)
(***************************************************************************)
NotFound == "Resource not found"
BodyUnavailable == "Failed to get file body stream"
BackendError == "backend error"

\* op, key, fault: the call and what the bucket did with it; ok, err: Ok or
\* Err(err); size, ctype, custom: the properties, headers and custom
\* metadata returned; arg, file, race, theirs: of a patch_metadata, its
\* metadata argument, the size and body stream of the object it fetched
\* (what step 3 reads of it), and what others did to the key meanwhile
NoFile == [size |-> 0, body |-> <<>>]

Result(op, caller, key, fault) ==
    [op |-> op, caller |-> caller, key |-> key, fault |-> fault,
     ok |-> TRUE, err |-> "", arg |-> EmptyMeta, race |-> "none", theirs |-> None,
     file |-> NoFile, size |-> 0, ctype |-> None, custom |-> EmptyMeta]

Failed(r, e) == [r EXCEPT !.ok = FALSE, !.err = e]

NoResult == Result("none", "env", <<>>, "none")

\* R2::get
GetResult(s, key, fault) ==
    LET r == Result("get", "env", key, fault)
        f == BucketGet(s, key)
    IN  IF fault = "backend" THEN Failed(r, BackendError)
        ELSE IF f = None THEN Failed(r, NotFound)
        ELSE LET file == Unwrap(f)
             IN  [r EXCEPT !.size = DavPropertiesFrom(file).size,
                           !.ctype = HttpResponseHeadersFrom(file.http).content_type,
                           !.custom = IF fault = "decode" THEN EmptyMeta ELSE file.custom]

\* R2::put: the arguments of the bucket put
PutUpload(stream, content_length) ==
    [stream |-> stream, length |-> content_length, custom |-> EmptyMeta]

\* R2::patch_metadata, step 3: the arguments of the bucket put
\* (variant: the put without .custom_metadata(metadata))
PatchUploadNoMetadata(file, metadata) ==
    [stream |-> file.body, length |-> file.size, custom |-> EmptyMeta]
\* (variant: the put of a body stream that was already drained)
PatchUploadDrained(file, metadata) ==
    [stream |-> <<>>, length |-> 0, custom |-> metadata]
PatchUpload(file, metadata) ==
    [stream |-> file.body, length |-> file.size, custom |-> metadata]

(***************************************************************************)
(* Range translator of R2::download.  The fields of Range and R2Range are  *)
(* unsigned integers of Width bits: `end - start + 1` panics on overflow   *)
(* in a build with overflow checks and wraps around in one without.        *)
(***************************************************************************)
\* end - start + 1 in unsigned arithmetic: [panic, value]
\* (variant: the half-open count end - start)
ClosedLengthOffByOne(start, end, checks) ==
    [panic |-> checks /\ end < start,
     value |-> (end - start + Modulus) % Modulus]
ClosedLength(start, end, checks) ==
    [panic |-> checks /\ (end < start \/ end - start + 1 > Modulus - 1),
     value |-> (end - start + 1 + Modulus) % Modulus]

\* the match on (range.start, range.end): [panic, range], range an Option<R2Range>
RangeTranslate(start, end, checks) ==
    IF start # None /\ end # None THEN
        LET len == ClosedLength(Unwrap(start), Unwrap(end), checks)
        IN  [panic |-> len.panic,
             range |-> Some([kind |-> "OffsetWithLength",
                             offset |-> start, length |-> Some(len.value)])]
    ELSE IF start # None THEN
        [panic |-> FALSE,
         range |-> Some([kind |-> "OffsetWithOptionalLength",
                         offset |-> start, length |-> None])]
    ELSE IF end # None THEN
        [panic |-> FALSE,
         range |-> Some([kind |-> "OptionalOffsetWithLength",
                         offset |-> None, length |-> end])]
    ELSE [panic |-> FALSE, range |-> None]

Min(a, b) == IF a < b THEN a ELSE b

\* the bytes body[from .. from + n - 1], offsets counted from 0
Window(body, from, n) == SubSeq(body, from + 1, Min(from + n, Len(body)))

\* bucket.get(path)[.range(r)]: the answers the bucket may give, each the
\* bytes of the stream or a refusal.  A window reaching past the end of the
\* object is cut at the end; what an empty window or an offset past the end
\* gives is the bucket's choice, as is the side a length without offset
\* counts from.
Bytes(b) == [ok |-> TRUE, bytes |-> b]
Refused == [ok |-> FALSE, bytes |-> <<>>]

BucketGetRange(body, range) ==
    IF range = None THEN {Bytes(body)}
    ELSE LET r == Unwrap(range)
         IN  IF r.offset # None THEN
                 LET off == Unwrap(r.offset)
                     n == IF r.length = None THEN Len(body) ELSE Unwrap(r.length)
                 IN  IF off >= Len(body) \/ n = 0 THEN {Refused, Bytes(<<>>)}
                     ELSE {Bytes(Window(body, off, n))}
             ELSE
                 LET n == Unwrap(r.length)
                 IN  IF n = 0 THEN {Refused, Bytes(<<>>)}
                     ELSE {Bytes(Window(body, 0, n)),
                           Bytes(Window(body, Len(body) - Min(n, Len(body)), n))}

NoDownload ==
    [op |-> "none", key |-> <<>>, start |-> None, end |-> None, fault |-> "none",
     panicked |-> FALSE, contacted |-> FALSE, requested |-> None,
     ok |-> FALSE, err |-> "", size |-> 0, stream |-> <<>>]

(***************************************************************************)
(* bucket.list().prefix(path): one page of the listing.                    *)
(***************************************************************************)
IsPrefix(p, k) == Len(p) <= Len(k) /\ SubSeq(k, 1, Len(p)) = p

Take(seq, n) == SubSeq(seq, 1, Min(n, Len(seq)))

\* the keys of the objects under the prefix, in listing order
Matching(s, prefix) ==
    SelectSeq(KeyOrder, LAMBDA k : s[k] # None /\ IsPrefix(prefix, k))

\* files.objects(): the first page, at most ListLimit objects
BucketList(s, prefix) == Take(Matching(s, prefix), ListLimit)

NoListing == [op |-> "none", prefix |-> <<>>, fault |-> "none", ok |-> FALSE,
              err |-> "", result |-> <<>>]

\* R2::list
ListResult(s, prefix, fault) ==
    LET r == [NoListing EXCEPT !.op = "list", !.prefix = prefix, !.fault = fault]
        files == BucketList(s, prefix)
    IN  IF fault = "backend" THEN [r EXCEPT !.err = BackendError]
        ELSE [r EXCEPT !.ok = TRUE,
                       !.result = [i \in 1 .. Len(files) |->
                                     [key |-> files[i],
                                      props |-> DavPropertiesFrom(Unwrap(s[files[i]]))]]]

(***************************************************************************)
(* History kept for the statements about races.                            *)
(***************************************************************************)
\* the last change other callers made to the key of a patch between its get
\* and its put: "none", "put", "delete" or "patch" (reads change nothing)
NextRace(r, kind) == IF kind = "read" THEN r ELSE kind

\* the content those callers left at the key, if they left an object
NextTheirs(t, kind, s, key) ==
    IF kind = "read" THEN t
    ELSE IF s[key] = None THEN None ELSE Some(Unwrap(s[key]).body)

\* the patches in flight on `key`, other than `who`'s, see an operation of
\* kind `kind` that leaves the bucket as `s`
Touch(who, key, kind, slots, s) ==
    [c \in Callers |->
        IF c # who /\ slots[c] # None /\ Unwrap(slots[c]).key = key
        THEN Some([Unwrap(slots[c]) EXCEPT !.race = NextRace(@, kind),
                                           !.theirs = NextTheirs(@, kind, s, key)])
        ELSE slots[c]]

(***************************************************************************)
(* The operations on single keys.  get, put and delete make one bucket     *)
(* call each; `fault` is what the bucket does with that call.              *)
(***************************************************************************)
Unused == UNCHANGED <<dl, ls, overflowChecks>>

\* R2::get(path)
Get(key, fault) ==
    /\ last' = GetResult(store, key, fault)
    /\ inflight' = Touch("env", key, "read", inflight, store)
    /\ UNCHANGED <<store, deleted>>
    /\ Unused

\* R2::put(path, stream, content_length)
Put(key, stream, content_length, fault) ==
    LET r == Result("put", "env", key, fault)
        up == PutUpload(stream, content_length)
        obj == WrittenObject(up.stream, up.length, up.custom)
    IN  /\ deleted' = [deleted EXCEPT ![key] = "no"]
        /\ IF fault = "backend" \/ ~FixedLengthOk(up.stream, up.length)
           THEN /\ last' = Failed(r, BackendError)
                /\ inflight' = Touch("env", key, "read", inflight, store)
                /\ UNCHANGED store
           ELSE /\ store' = BucketPut(store, key, obj)
                /\ last' = [r EXCEPT !.size = DavPropertiesFrom(obj).size,
                                     !.ctype = DavPropertiesFrom(obj).content_type]
                /\ inflight' = Touch("env", key, "put", inflight, store')
        /\ Unused

\* R2::delete(path)
Delete(key, fault) ==
    LET r == Result("delete", "env", key, fault)
    IN  /\ IF fault = "backend"
           THEN /\ last' = Failed(r, BackendError)
                /\ inflight' = Touch("env", key, "read", inflight, store)
                /\ UNCHANGED <<store, deleted>>
           ELSE /\ store' = BucketDelete(store, key)
                /\ last' = r
                /\ inflight' = Touch("env", key, "delete", inflight, store')
                /\ deleted' = [deleted EXCEPT ![key] = "yes"]
        /\ Unused

(***************************************************************************)
(* R2::patch_metadata(path, metadata): the get with its body stream, then  *)
(* the put of that stream under the new custom metadata.                   *)
(***************************************************************************)
\* steps 1 and 2: fetch the object and open its body stream
PatchFetch(c, key, metadata, fault) ==
    LET r == [Result("patch_metadata", c, key, fault) EXCEPT !.arg = metadata]
        f == BucketGet(store, key)
    IN  /\ inflight[c] = None
        /\ IF fault = "backend" THEN
               /\ last' = Failed(r, BackendError)
               /\ inflight' = Touch(c, key, "read", inflight, store)
           ELSE IF f = None THEN
               /\ last' = Failed(r, NotFound)
               /\ inflight' = Touch(c, key, "read", inflight, store)
           ELSE IF fault = "nobody" THEN
               /\ last' = Failed(r, BodyUnavailable)
               /\ inflight' = Touch(c, key, "read", inflight, store)
           ELSE IF fault = "stream" THEN
               /\ last' = Failed(r, BackendError)
               /\ inflight' = Touch(c, key, "read", inflight, store)
           ELSE
               /\ inflight' = [Touch(c, key, "read", inflight, store) EXCEPT ![c] =
                      Some([key |-> key, metadata |-> metadata,
                            file |-> [size |-> Unwrap(f).size, body |-> Unwrap(f).body],
                            race |-> "none", theirs |-> None])]
               /\ UNCHANGED last
        /\ UNCHANGED <<store, deleted>>
        /\ Unused

\* steps 3 and 4: re-upload the stream with the new metadata, return the
\* custom metadata of the bucket's answer
PatchPut(c, fault) ==
    /\ inflight[c] # None
    /\ LET p == Unwrap(inflight[c])
           r == [Result("patch_metadata", c, p.key, fault) EXCEPT
                    !.arg = p.metadata, !.file = p.file,
                    !.race = p.race, !.theirs = p.theirs]
           up == PatchUpload(p.file, p.metadata)
           obj == WrittenObject(up.stream, up.length, up.custom)
       IN  IF fault = "backend" \/ ~FixedLengthOk(up.stream, up.length)
           THEN /\ last' = Failed(r, BackendError)
                /\ inflight' = [Touch(c, p.key, "read", inflight, store) EXCEPT ![c] = None]
                /\ UNCHANGED <<store, deleted>>
           ELSE /\ store' = BucketPut(store, p.key, obj)
                /\ last' = IF fault = "decode" THEN Failed(r, BackendError)
                           ELSE [r EXCEPT !.custom = obj.custom]
                /\ inflight' = [Touch(c, p.key, "patch", inflight, store') EXCEPT ![c] = None]
                /\ deleted' = [deleted EXCEPT ![p.key] = IF @ = "no" THEN "no" ELSE "patched"]
    /\ Unused

Init ==
    /\ store \in StoresOver(Keys)
    /\ inflight = [c \in Callers |-> None]
    /\ last = NoResult
    /\ deleted = [k \in Keys |-> "no"]
    /\ dl = NoDownload
    /\ ls = NoListing
    /\ overflowChecks = FALSE

Next ==
    \/ \E k \in Keys, f \in {"none", "backend", "decode"} : Get(k, f)
    \/ \E k \in Keys, b \in Bodies, n \in 0 .. MaxLen, f \in {"none", "backend"} : Put(k, b, n, f)
    \/ \E k \in Keys, f \in {"none", "backend"} : Delete(k, f)
    \/ \E c \in Callers, k \in Keys, m \in Metas,
          f \in {"none", "backend", "nobody", "stream"} : PatchFetch(c, k, m, f)
    \/ \E c \in Callers, f \in {"none", "backend", "decode"} : PatchPut(c, f)

Spec == Init /\ [][Next]_vars

(***************************************************************************)
(* R2::download(path, range) on a bucket nobody writes to meanwhile.       *)
(***************************************************************************)
Download(key, start, end, fault) ==
    LET t == RangeTranslate(start, end, overflowChecks)
        r == [NoDownload EXCEPT !.op = "download", !.key = key, !.start = start,
                                !.end = end, !.fault = fault]
        f == BucketGet(store, key)
    IN  /\ IF t.panic THEN dl' = [r EXCEPT !.panicked = TRUE, !.err = "panic"]
           ELSE LET q == [r EXCEPT !.contacted = TRUE, !.requested = t.range]
                IN  IF fault = "backend" THEN dl' = [q EXCEPT !.err = BackendError]
                    ELSE IF f = None THEN dl' = [q EXCEPT !.err = NotFound]
                    ELSE \E out \in BucketGetRange(Unwrap(f).body, t.range) :
                           IF ~out.ok THEN dl' = [q EXCEPT !.err = BackendError]
                           ELSE IF fault \in {"nobody", "stream"}
                           THEN dl' = [q EXCEPT !.err = BodyUnavailable]
                           ELSE dl' = [q EXCEPT !.ok = TRUE, !.stream = out.bytes,
                                           !.size = DavPropertiesFrom(Unwrap(f)).size]
        /\ UNCHANGED <<store, inflight, last, deleted, ls, overflowChecks>>

InitDownload ==
    /\ store \in StoresOver(Keys)
    /\ \A k \in Keys : store[k] # None => Unwrap(store[k]).custom = EmptyMeta
    /\ overflowChecks \in BOOLEAN
    /\ inflight = [c \in Callers |-> None]
    /\ last = NoResult
    /\ deleted = [k \in Keys |-> "no"]
    /\ dl = NoDownload
    /\ ls = NoListing

OptUInts == {None} \cup {Some(n) : n \in UInts}

NextDownload ==
    \E k \in Keys, s \in OptUInts, e \in OptUInts,
       f \in {"none", "backend", "nobody", "stream"} : Download(k, s, e, f)

SpecDownload == InitDownload /\ [][NextDownload]_vars

(***************************************************************************)
(* R2::list(path) over a bucket of several keys.                           *)
(***************************************************************************)
List(prefix, fault) ==
    /\ ls' = ListResult(store, prefix, fault)
    /\ UNCHANGED <<store, inflight, last, deleted, dl, overflowChecks>>

InitList ==
    /\ store \in StoresOver(ListKeys)
    /\ overflowChecks = FALSE
    /\ inflight = [c \in Callers |-> None]
    /\ last = NoResult
    /\ deleted = [k \in ListKeys |-> "no"]
    /\ dl = NoDownload
    /\ ls = NoListing

NextList == \E p \in Prefixes, f \in {"none", "backend"} : List(p, f)

SpecList == InitList /\ [][NextList]_vars

(***************************************************************************)
(* Properties.  IsPatchPut(c) holds of the step in which caller c's        *)
(* patch_metadata makes its put and returns; `last'` is then its result.   *)
(***************************************************************************)
IsPatchPut(c) == inflight[c] # None /\ inflight'[c] = None

PatchReturned == last.op = "patch_metadata"

\* C1: a patch_metadata(path, M) on an existing object, with no change to
\* the key by anyone else between its get and its put and a bucket that
\* serves both calls, succeeds, returns exactly M, and leaves the object
\* with the content it had before and with custom metadata exactly M.
C1_PatchReplacesMetadataKeepsContent ==
    [][\A c \in Callers :
        (IsPatchPut(c) /\ Unwrap(inflight[c]).race = "none" /\ last'.fault = "none") =>
            LET p == Unwrap(inflight[c])
            IN  /\ last'.ok
                /\ last'.custom = p.metadata
                /\ store[p.key] # None
                /\ store'[p.key] # None
                /\ Unwrap(store'[p.key]).body = Unwrap(store[p.key]).body
                /\ Unwrap(store'[p.key]).size = Unwrap(store[p.key]).size
                /\ Unwrap(store'[p.key]).custom = p.metadata]_vars

\* C1: a patch with a non-empty M has returned Ok on a non-empty object
\* nobody else changed meanwhile.
C1_Witness ==
    /\ PatchReturned /\ last.ok /\ last.race = "none"
    /\ last.arg # EmptyMeta /\ last.file.body # <<>>
    /\ store[last.key] # None /\ Unwrap(store[last.key]).custom = last.arg

\* C2 as claimed: when another caller's put replaced the object between the
\* patch's get and its put and the patch succeeds, the object afterwards
\* holds that caller's content with the patch's metadata.
C2_ConcurrentContentKept ==
    (PatchReturned /\ last.ok /\ last.race = "put") =>
        /\ store[last.key] # None
        /\ Unwrap(store[last.key]).body = Unwrap(last.theirs)
        /\ Unwrap(store[last.key]).custom = last.arg

\* C2 amended: in that case the object afterwards holds the content the patch
\* fetched in step 1 (the other caller's content is overwritten), with the
\* patch's metadata, and the patch returns that metadata.
C2_FetchedContentWritten ==
    (PatchReturned /\ last.ok /\ last.race = "put") =>
        /\ store[last.key] # None
        /\ Unwrap(store[last.key]).body = last.file.body
        /\ Unwrap(store[last.key]).size = last.file.size
        /\ Unwrap(store[last.key]).custom = last.arg
        /\ last.custom = last.arg

\* C2: a patch has succeeded after a put of other content in between.
C2_Witness ==
    /\ PatchReturned /\ last.ok /\ last.race = "put"
    /\ Unwrap(last.theirs) # last.file.body

\* C3 as claimed: when a delete removed the object between the patch's get
\* and its put, patch_metadata returns an error.
C3_PatchFailsAfterDelete ==
    (PatchReturned /\ last.race = "delete") => ~last.ok

\* C3 amended: in that case patch_metadata fails only if the bucket fails its
\* put; otherwise it returns M and the object is back, with the content the
\* patch fetched and custom metadata M.
C3_PatchRecreatesAfterDelete ==
    (PatchReturned /\ last.race = "delete" /\ last.fault = "none") =>
        /\ last.ok
        /\ last.custom = last.arg
        /\ store[last.key] = Some(WrittenObject(last.file.body, last.file.size, last.arg))

\* C3: a patch has returned Ok after a delete in between.
C3_Witness == PatchReturned /\ last.race = "delete" /\ last.ok /\ last.file.body # <<>>

\* C4 as claimed: once delete(path) has succeeded and no put(path) was
\* invoked since, a get(path) returns NotFound, whatever a patch_metadata
\* in flight at the delete did since.
C4_GetNotFoundAfterDelete ==
    \A k \in DOMAIN deleted :
        deleted[k] # "no" => GetResult(store, k, "none").err = NotFound

\* C4 amended: once delete(path) has succeeded, and since then no put(path)
\* was invoked and no patch_metadata made its put on the key, no get(path)
\* returns an object: it returns NotFound when the bucket serves it.
C4_GetNotFoundUntilWritten ==
    /\ \A k \in DOMAIN deleted :
          deleted[k] = "yes" =>
              /\ GetResult(store, k, "none").err = NotFound
              /\ \A f \in {"none", "backend", "decode"} : ~GetResult(store, k, f).ok
    /\ (last.op = "get" /\ deleted[last.key] = "yes") =>
          /\ ~last.ok
          /\ last.fault # "backend" => last.err = NotFound

\* C4: a get has returned NotFound after a successful delete while a patch
\* of the key is still between its get and its put.
C4_Witness ==
    /\ last.op = "get" /\ last.err = NotFound /\ deleted[last.key] = "yes"
    /\ \E c \in Callers : inflight[c] # None /\ Unwrap(inflight[c]).key = last.key

\* C5: all-or-nothing: a call that returns an error has left the bucket as
\* it was (a step whose result is an error changes no object).
C5_ErrorLeavesStore ==
    [][(last'.op # "none" /\ ~last'.ok) => store' = store]_vars

\* C8: for every key with an object, get returns properties whose size is
\* the byte length of the stored content, in every reachable state; and
\* every get that returned did so.
C8_SizeIsContentLength ==
    /\ \A k \in DOMAIN store :
          store[k] # None =>
              \A f \in {"none", "decode"} :
                  /\ GetResult(store, k, f).ok
                  /\ GetResult(store, k, f).size = Len(Unwrap(store[k]).body)
    /\ (last.op = "get" /\ last.ok) =>
          /\ store[last.key] # None
          /\ last.size = Len(Unwrap(store[last.key]).body)

\* C8: a patch has re-uploaded, with the size of its earlier fetch, after a
\* put of content of another length.
C8_Witness ==
    /\ PatchReturned /\ last.ok /\ last.race = "put"
    /\ Len(Unwrap(last.theirs)) # last.file.size
    /\ store[last.key] # None

\* C10: a successful patch_metadata with no change to the key by anyone else
\* leaves the object's size, content and HTTP metadata (content type) as
\* they were.
C10_PatchKeepsHttpMetadata ==
    [][\A c \in Callers :
        (IsPatchPut(c) /\ Unwrap(inflight[c]).race = "none" /\ last'.ok) =>
            LET k == Unwrap(inflight[c]).key
            IN  /\ store[k] # None
                /\ store'[k] # None
                /\ Unwrap(store'[k]).size = Unwrap(store[k]).size
                /\ Unwrap(store'[k]).body = Unwrap(store[k]).body
                /\ Unwrap(store'[k]).http = Unwrap(store[k]).http
                /\ GetResult(store', k, "none").ctype = GetResult(store, k, "none").ctype]_vars

(***************************************************************************)
(* Properties of download and list.                                        *)
(***************************************************************************)
ClosedRange ==
    /\ dl.op = "download" /\ dl.start # None /\ dl.end # None
    /\ store[dl.key] # None

\* what C6 says of a download of the bytes s .. e of content C
SliceReturned(s, e, C) ==
    /\ dl.requested = Some([kind |-> "OffsetWithLength",
                            offset |-> Some(s), length |-> Some(e - s + 1)])
    /\ dl.ok
    /\ Len(dl.stream) = e - s + 1
    /\ e < Len(C)
    /\ dl.stream = SubSeq(C, s + 1, e + 1)

\* C6 as claimed: for an existing object with content C and every range
\* with start s <= end e, download asks for offset s and length e - s + 1
\* and returns exactly the e - s + 1 bytes C[s..e].
C6_RangeReturnsSlice ==
    (ClosedRange /\ dl.fault = "none" /\ Unwrap(dl.start) <= Unwrap(dl.end)) =>
        SliceReturned(Unwrap(dl.start), Unwrap(dl.end), Unwrap(store[dl.key]).body)

\* C6 amended: that holds for the ranges that lie within the object,
\* s <= e < length of C (a range reaching past the end returns fewer bytes
\* or fails), when the bucket serves the call.
C6_RangeWithinObjectReturnsSlice ==
    (/\ ClosedRange /\ dl.fault = "none"
     /\ Unwrap(dl.start) <= Unwrap(dl.end)
     /\ Unwrap(dl.end) < Len(Unwrap(store[dl.key]).body)) =>
        SliceReturned(Unwrap(dl.start), Unwrap(dl.end), Unwrap(store[dl.key]).body)

\* C6: a download of a window that starts after the first byte has returned.
C6_Witness ==
    /\ ClosedRange /\ dl.ok
    /\ 1 <= Unwrap(dl.start) /\ Unwrap(dl.start) <= Unwrap(dl.end)
    /\ Len(dl.stream) = Unwrap(dl.end) - Unwrap(dl.start) + 1

\* C9: for a range with start > end, download does not fail by itself: the
\* computation of the length never ends the call before the bucket is asked,
\* and the get it issues has offset = start.
C9_InvertedRangeReachesBackend ==
    (/\ dl.op = "download" /\ dl.start # None /\ dl.end # None
     /\ Unwrap(dl.start) > Unwrap(dl.end)) =>
        /\ ~dl.panicked
        /\ dl.contacted
        /\ dl.requested # None
        /\ Unwrap(dl.requested).offset = dl.start

\* C7: a successful list(prefix) returns every object whose key starts with
\* the prefix, each once, and no other, however many there are.
C7_ListReturnsAllMatching ==
    (ls.op = "list" /\ ls.ok) =>
        LET returned == {ls.result[i].key : i \in 1 .. Len(ls.result)}
        IN  /\ returned = {k \in DOMAIN store : store[k] # None /\ IsPrefix(ls.prefix, k)}
            /\ Cardinality(returned) = Len(ls.result)

====
